---- MODULE Spec2Model ----
(***************************************************************************)
(* Element attribute records of fsf/elements_dataclasses.py.               *)
(*                                                                         *)
(* A behaviour is the life of one record: it is constructed once (or its   *)
(* construction raises), and then its setters and methods are called in    *)
(* any order.  `obj` holds the instance attributes of the record, `call`   *)
(* the last call made on it, with its arguments.                           *)
(*                                                                         *)
(* Numbers.  A Python number is [t |-> "int" | "float", v |-> n]: its type *)
(* and its value counted in quarters (v = 4 is 1, v = 2 is 0.5).  A float  *)
(* carries Precision significant bits: an addition or subtraction rounds   *)
(* its exact result to the nearest such value, ties to even, as IEEE-754   *)
(* does with 53 bits; a division by two is exact.  Float inputs to         *)
(* arithmetic are whole numbers, so no halving leaves the quarter grid.    *)
(***************************************************************************)
EXTENDS Integers, Sequences, FiniteSets, TLC

VARIABLES obj, call

vars == <<obj, call>>

(* Significant bits of a float in the model (53 in CPython). *)
Precision == 3

(* Longest coefficient list given to a multipole record. *)
MaxLen == 4

----------------------------------------------------------------------------
(* Python values *)

PyInt(n) == [t |-> "int", v |-> 4 * n]

PyFloat(q) == [t |-> "float", v |-> q]

(* dataclasses.py: the class attribute left as the default of a field that *)
(* a property of the same name replaces; what an omitted argument passes.  *)
PROPERTY == [t |-> "property", v |-> 0]

None == [t |-> "None", v |-> 0]

IsNum(x) == x.t \in {"int", "float"}

isinstance_property(x) == x.t = "property"

(* Python's x == 0.0 *)
EqZero(x) == IsNum(x) /\ x.v = 0

(* Python's x == y on numbers: by value, 1 == 1.0 *)
NumEq(x, y) == IsNum(x) /\ IsNum(y) /\ x.v = y.v

Abs(n) == IF n < 0 THEN -n ELSE n

RECURSIVE Pow2(_)
Pow2(e) == IF e = 0 THEN 1 ELSE 2 * Pow2(e - 1)

(* The binary exponent at which a has at most Precision significant bits. *)
RECURSIVE Exponent(_)
Exponent(a) == IF a < Pow2(Precision) THEN 0 ELSE 1 + Exponent(a \div 2)

(* Round to nearest, ties to even, to Precision significant bits. *)
Round(n) ==
    LET a == Abs(n)
        e == Exponent(a)
        q == a \div Pow2(e)
        r == a % Pow2(e)
        up == (2 * r > Pow2(e)) \/ (2 * r = Pow2(e) /\ q % 2 = 1)
        m == IF up THEN q + 1 ELSE q
    IN  IF n < 0 THEN -(m * Pow2(e)) ELSE m * Pow2(e)

(* float + float, float - float, float / 2. *)
fadd(x, y) == PyFloat(Round(x.v + y.v))

fsub(x, y) == PyFloat(Round(x.v - y.v))

fhalf(x) == PyFloat(x.v \div 2)

NoObj == [cls |-> "none"]

NoCall == [op |-> "none"]

----------------------------------------------------------------------------
(* ElementPosition *)

(* Whole-number floats given as location and reference, and as length. *)
PositionValues == {PyFloat(4 * n) : n \in {-3, 0, 1, 3, 5}}

LengthValues == {PyFloat(4 * n) : n \in {0, 1, 3, 5}}

calc_positionNoEnd(self) ==
    IF IsNum(self._location) /\ IsNum(self._reference) /\ IsNum(self._length)
    THEN LET pos == fadd(self._location, self._reference)
         IN  [self EXCEPT !._position =
                 [centre |-> pos,
                  start  |-> fsub(pos, fhalf(self._length)),
                  end    |-> fadd(pos, self._length)]]
    ELSE self

(* calc_position: the arithmetic on a property object raises TypeError,    *)
(* which the bare except swallows, leaving _position as it was.            *)
calc_position(self) ==
    IF IsNum(self._location) /\ IsNum(self._reference) /\ IsNum(self._length)
    THEN LET pos == fadd(self._location, self._reference)
         IN  [self EXCEPT !._position =
                 [centre |-> pos,
                  start  |-> fsub(pos, fhalf(self._length)),
                  end    |-> fadd(pos, fhalf(self._length))]]
    ELSE self

length_setter(self, length) == calc_position([self EXCEPT !._length = length])

location_setter(self, location) == calc_position([self EXCEPT !._location = location])

reference_setter(self, reference) == calc_position([self EXCEPT !._reference = reference])

set_positionStale(self, location, reference) ==
    [self EXCEPT !._reference = reference, !._location = location]

set_position(self, location, reference) ==
    calc_position([self EXCEPT !._reference = reference, !._location = location])

get_position(self, loc) ==
    IF self._position = None
    THEN calc_position(self)._position[loc]
    ELSE self._position[loc]

start(self) == get_position(self, "start")

position(self) == get_position(self, "centre")

end(self) == get_position(self, "end")

(* The generated __init__ assigns length, location and reference through   *)
(* their setters; _length, _location and _reference start as the class     *)
(* attributes 0.0 and _position does not exist yet; reference_element and  *)
(* mech_sep keep their defaults.                                           *)
ElementPosition__init__(length, location, reference) ==
    LET s0 == [cls |-> "ElementPosition",
               _length |-> PyFloat(0), _location |-> PyFloat(0), _reference |-> PyFloat(0),
               reference_element |-> "", mech_sep |-> PyFloat(0),
               _position |-> [centre |-> PROPERTY, start |-> PROPERTY, end |-> PROPERTY]]
        s1 == length_setter(s0, length)
        s2 == location_setter(s1, location)
    IN  reference_setter(s2, reference)

ElementPosition__post_init__(self) ==
    LET s1 == IF isinstance_property(self._length) THEN length_setter(self, PyFloat(0)) ELSE self
        s2 == IF isinstance_property(s1._location) THEN location_setter(s1, PyFloat(0)) ELSE s1
    IN  IF isinstance_property(s2._reference) THEN reference_setter(s2, PyFloat(0)) ELSE s2

NewElementPosition ==
    /\ obj = NoObj /\ call = NoCall
    /\ \E length \in LengthValues \cup {PROPERTY},
          location \in PositionValues \cup {PROPERTY},
          reference \in PositionValues \cup {PROPERTY} :
          /\ obj' = ElementPosition__post_init__(
                        ElementPosition__init__(length, location, reference))
          /\ call' = [op |-> "ElementPosition", length |-> length,
                      location |-> location, reference |-> reference]

SetLength ==
    /\ obj.cls = "ElementPosition"
    /\ \E length \in LengthValues :
          /\ obj' = length_setter(obj, length)
          /\ call' = [op |-> "length", value |-> length]

SetLocation ==
    /\ obj.cls = "ElementPosition"
    /\ \E location \in PositionValues :
          /\ obj' = location_setter(obj, location)
          /\ call' = [op |-> "location", value |-> location]

SetReference ==
    /\ obj.cls = "ElementPosition"
    /\ \E reference \in PositionValues :
          /\ obj' = reference_setter(obj, reference)
          /\ call' = [op |-> "reference", value |-> reference]

(* set_position(location=0.0, reference=0.0): an omitted argument is 0.0. *)
SetPosition ==
    /\ obj.cls = "ElementPosition"
    /\ \E location \in PositionValues \cup {PROPERTY},
          reference \in PositionValues \cup {PROPERTY} :
          /\ obj' = set_position(obj,
                        IF location = PROPERTY THEN PyFloat(0) ELSE location,
                        IF reference = PROPERTY THEN PyFloat(0) ELSE reference)
          /\ call' = [op |-> "set_position", location |-> location,
                      reference |-> reference]

----------------------------------------------------------------------------
(* ElementID *)

(* slot_id and assembly_id as given; None when omitted. *)
IDValues == {None, PyInt(0), PyFloat(0), PyInt(1), PyInt(7), PyFloat(10)}

ZeroToNoneKeepsZero(x) == x

(* if x == 0.0: x = None *)
ZeroToNone(x) == IF EqZero(x) THEN None ELSE x

ElementID__post_init__(self) ==
    [self EXCEPT !.slot_id = ZeroToNone(self.slot_id),
                 !.assembly_id = ZeroToNone(self.assembly_id)]

NewElementID ==
    /\ obj = NoObj /\ call = NoCall
    /\ \E slot_id \in IDValues, assembly_id \in IDValues :
          /\ obj' = ElementID__post_init__(
                        [cls |-> "ElementID", slot_id |-> slot_id,
                         assembly_id |-> assembly_id])
          /\ call' = [op |-> "ElementID", slot_id |-> slot_id,
                      assembly_id |-> assembly_id]

----------------------------------------------------------------------------
(* ApertureData, RectangularAperture *)

(* Longest aperture_size list given to a RectangularAperture. *)
MaxSizeLen == 4

ApertureValues == {PyFloat(4 * n) : n \in {-3, 1, 5, 6}}

ApertureSizes == UNION {[1..n -> ApertureValues] : n \in 0..MaxSizeLen}

(* aperture_offset: default_factory [0.0] when omitted, or a list given. *)
ApertureOffsets == {<<PyFloat(0)>>, <<PyFloat(4), PyFloat(8)>>}

reset_offset_and_size_from_4_arrayFullWidth(self) ==
    LET x_offset == fhalf(fadd(self.aperture_size[1], self.aperture_size[2]))
        y_offset == fhalf(fadd(self.aperture_size[3], self.aperture_size[4]))
    IN  [self EXCEPT !.aperture_offset = <<x_offset, y_offset>>,
                     !.aperture_size = <<fsub(self.aperture_size[2], self.aperture_size[1]),
                                         fsub(self.aperture_size[4], self.aperture_size[3])>>]

(* aperture_size[i] of the source is aperture_size[i + 1] here. *)
reset_offset_and_size_from_4_array(self) ==
    LET x_offset == fhalf(fadd(self.aperture_size[1], self.aperture_size[2]))
        y_offset == fhalf(fadd(self.aperture_size[3], self.aperture_size[4]))
    IN  [self EXCEPT !.aperture_offset = <<x_offset, y_offset>>,
                     !.aperture_size = <<fsub(x_offset, self.aperture_size[1]),
                                         fsub(y_offset, self.aperture_size[3])>>]

RectangularAperture__post_init__(self) ==
    IF Len(self.aperture_size) = 4
    THEN reset_offset_and_size_from_4_array(self)
    ELSE self

NewRectangularAperture ==
    /\ obj = NoObj /\ call = NoCall
    /\ \E aperture_size \in ApertureSizes, aperture_offset \in ApertureOffsets :
          /\ obj' = RectangularAperture__post_init__(
                        [cls |-> "RectangularAperture",
                         aperture_size |-> aperture_size,
                         aperture_type |-> "circle",
                         aperture_offset |-> aperture_offset])
          /\ call' = [op |-> "RectangularAperture",
                      aperture_size |-> aperture_size,
                      aperture_offset |-> aperture_offset]

----------------------------------------------------------------------------
(* DipoleEdgeData *)

EdgeValues == {PyFloat(4 * n) : n \in {-1, 0, 2}} \cup {PyFloat(1), PyInt(3)}

Sides == {"entrance", "exit", "", "Entrance", "both"}

DipoleEdgeData__post_init__AnySide(side) == TRUE

(* assert self.side in ('entrance', 'exit') *)
DipoleEdgeData__post_init__(side) == side \in {"entrance", "exit"}

(* A failed assertion raises out of the constructor: no record exists. *)
NewDipoleEdgeData ==
    /\ obj = NoObj /\ call = NoCall
    /\ \E h \in EdgeValues, e1 \in EdgeValues, side \in Sides :
          IF DipoleEdgeData__post_init__(side)
          THEN /\ obj' = [cls |-> "DipoleEdgeData", h |-> h, e1 |-> e1, side |-> side]
               /\ call' = [op |-> "DipoleEdgeData", h |-> h, e1 |-> e1, side |-> side,
                           raised |-> "none"]
          ELSE /\ obj' = NoObj
               /\ call' = [op |-> "DipoleEdgeData", h |-> h, e1 |-> e1, side |-> side,
                           raised |-> "AssertionError"]

----------------------------------------------------------------------------
(* Coefficient containers: Python lists and numpy arrays *)

(* A list holds the objects stored in it; an ndarray holds numbers of its  *)
(* one dtype.  Index i of the source is index i + 1 of the sequence a.     *)
PyList(a) == [type |-> "list", dtype |-> "object", a |-> a]

ndarray(dtype, a) == [type |-> "ndarray", dtype |-> dtype, a |-> a]

len(c) == Len(c.a)

getitem(c, i) == c.a[i + 1]

Max(a, b) == IF a >= b THEN a ELSE b

(* int(x): towards zero. *)
int_cast(x) ==
    [t |-> "int", v |-> IF x.v >= 0 THEN 4 * (x.v \div 4) ELSE -(4 * ((-x.v) \div 4))]

float_cast(x) == PyFloat(x.v)

astype(x, dtype) == IF dtype = "int" THEN int_cast(x) ELSE float_cast(x)

(* c[i] = x, for an index the container has: a list stores the object, an  *)
(* ndarray converts it to its dtype.                                       *)
setitem(c, i, x) ==
    [c EXCEPT !.a[i + 1] = IF c.type = "list" THEN x ELSE astype(x, c.dtype)]

RECURSIVE TrimBack(_)
TrimBack(a) ==
    IF Len(a) = 0 \/ ~EqZero(a[Len(a)])
    THEN a
    ELSE TrimBack(SubSeq(a, 1, Len(a) - 1))

np_trim_zerosFront(c) ==
    [c EXCEPT !.a = IF Len(c.a) > 0 /\ EqZero(c.a[1]) THEN Tail(c.a) ELSE c.a]

(* np.trim_zeros(c, trim='b'): a slice of c without its trailing zeros. *)
np_trim_zeros(c) == [c EXCEPT !.a = TrimBack(c.a)]

(* np.zeros(n): float64. *)
np_zeros(n) == ndarray("float", [i \in 1..n |-> PyFloat(0)])

(* np.asarray: a list of ints becomes an int64 array, a list holding a     *)
(* float a float64 array.                                                  *)
np_asarray(c) ==
    IF c.type = "ndarray"
    THEN c
    ELSE IF \A i \in DOMAIN c.a : c.a[i].t = "int"
         THEN ndarray("int", c.a)
         ELSE ndarray("float", [i \in DOMAIN c.a |-> float_cast(c.a[i])])

np_padNothing(c, after) == np_asarray(c)

(* np.pad(c, (0, after)): c as an array, then `after` zeros of its dtype. *)
np_pad(c, after) ==
    LET arr == np_asarray(c)
    IN  [arr EXCEPT !.a = @ \o [i \in 1..after |-> astype(PyInt(0), arr.dtype)]]

----------------------------------------------------------------------------
(* MultipoleStrengthData, ThinMultipoleStrengthData *)

(* default_factory of kn, ks, knl, ksl. *)
DefaultCoefficients == PyList(<<PyFloat(0), PyFloat(0), PyFloat(0), PyFloat(0)>>)

CoefficientValues == {PyInt(0), PyInt(1)}

CoefficientLists ==
    {PyList(a) : a \in UNION {[1..n -> CoefficientValues] : n \in 0..MaxLen}}
        \cup {DefaultCoefficients}

PolarityValues == {None, PyInt(1)}

MultipoleStrengthData_update_arraysMinOnly(self, min_order) ==
    LET kn == np_trim_zeros(self.kn)
        ks == np_trim_zeros(self.ks)
        kn1 == IF len(kn) = 0 THEN np_zeros(1) ELSE kn
        ks1 == IF len(ks) = 0 THEN np_zeros(1) ELSE ks
        order == min_order
    IN  [self EXCEPT !.order = order,
                     !.kn = np_pad(kn1, Max(0, order - len(kn1))),
                     !.ks = np_pad(ks1, Max(0, order - len(ks1)))]

MultipoleStrengthData_update_arrays(self, min_order) ==
    LET kn == np_trim_zeros(self.kn)
        ks == np_trim_zeros(self.ks)
        kn1 == IF len(kn) = 0 THEN np_zeros(1) ELSE kn
        ks1 == IF len(ks) = 0 THEN np_zeros(1) ELSE ks
        order == Max(Max(len(kn1), len(ks1)), min_order)
    IN  [self EXCEPT !.order = order,
                     !.kn = np_pad(kn1, order - len(kn1)),
                     !.ks = np_pad(ks1, order - len(ks1))]

ThinMultipoleStrengthData_update_arrays(self, min_order) ==
    LET knl == np_trim_zeros(self.knl)
        ksl == np_trim_zeros(self.ksl)
        knl1 == IF len(knl) = 0 THEN np_zeros(1) ELSE knl
        ksl1 == IF len(ksl) = 0 THEN np_zeros(1) ELSE ksl
        order == Max(Max(len(knl1), len(ksl1)), min_order)
    IN  [self EXCEPT !.order = order,
                     !.knl = np_pad(knl1, order - len(knl1)),
                     !.ksl = np_pad(ksl1, order - len(ksl1))]

(* order does not exist before _update_arrays sets it. *)
MultipoleStrengthData__post_init__(self) == MultipoleStrengthData_update_arrays(self, 1)

ThinMultipoleStrengthData__post_init__(self) ==
    ThinMultipoleStrengthData_update_arrays(self, 1)

NewMultipoleStrengthData ==
    /\ obj = NoObj /\ call = NoCall
    /\ \E kn \in CoefficientLists, ks \in CoefficientLists, polarity \in PolarityValues :
          /\ obj' = MultipoleStrengthData__post_init__(
                        [cls |-> "MultipoleStrengthData", kn |-> kn, ks |-> ks,
                         polarity |-> polarity, order |-> 0])
          /\ call' = [op |-> "MultipoleStrengthData", kn |-> kn, ks |-> ks,
                      polarity |-> polarity, raised |-> "none"]

NewThinMultipoleStrengthData ==
    /\ obj = NoObj /\ call = NoCall
    /\ \E knl \in CoefficientLists, ksl \in CoefficientLists, polarity \in PolarityValues :
          /\ obj' = ThinMultipoleStrengthData__post_init__(
                        [cls |-> "ThinMultipoleStrengthData", knl |-> knl, ksl |-> ksl,
                         polarity |-> polarity, order |-> 0])
          /\ call' = [op |-> "ThinMultipoleStrengthData", kn |-> knl, ks |-> ksl,
                      polarity |-> polarity, raised |-> "none"]

----------------------------------------------------------------------------
(* Arguments of QuadrupoleData, SextupoleData and OctupoleData *)

(* k1/k1s, k2/k2s, k3/k3s as given; the property object when omitted. *)
KValues == {PROPERTY, PyFloat(2), PyInt(3)}

(* kmax and kmin as given; None when omitted. *)
LimitValues == {None, PyFloat(0), PyInt(0), PyFloat(10), PyInt(-2)}

(* Values assigned through the properties after construction. *)
SetValues == {PyFloat(2), PyInt(3)}

(* Either the coefficient lists and strengths vary, or the limits do. *)
StrengthArguments ==
    [kn : CoefficientLists, ks : CoefficientLists, polarity : {None},
     k : KValues, k_s : {PROPERTY, PyInt(3)}, kmax : {None}, kmin : {None}]
    \cup
    [kn : {DefaultCoefficients}, ks : {DefaultCoefficients}, polarity : PolarityValues,
     k : {PROPERTY}, k_s : {PROPERTY, PyFloat(2)}, kmax : LimitValues, kmin : LimitValues]

----------------------------------------------------------------------------
(* QuadrupoleData *)

k1(self) == getitem(self.kn, 1)

k1_setterDropped(self, value) == self

k1_setter(self, value) == [self EXCEPT !.kn = setitem(self.kn, 1, value)]

k1s(self) == getitem(self.ks, 1)

k1s_setter(self, value) == [self EXCEPT !.ks = setitem(self.ks, 1, value)]

(* The generated __init__ assigns the fields in order; k1 and k1s go      *)
(* through their setters into the lists just stored.                       *)
QuadrupoleData__init__(a) ==
    LET s0 == [cls |-> "QuadrupoleData", kn |-> a.kn, ks |-> a.ks,
               polarity |-> a.polarity, order |-> 0, kmax |-> None, kmin |-> None]
        s1 == k1_setter(s0, a.k)
        s2 == k1s_setter(s1, a.k_s)
    IN  [s2 EXCEPT !.kmax = a.kmax, !.kmin = a.kmin]

QuadrupoleData__post_init__(self) ==
    LET s1 == IF isinstance_property(k1(self)) THEN k1_setter(self, PyFloat(0)) ELSE self
        s2 == IF isinstance_property(k1s(s1)) THEN k1s_setter(s1, PyFloat(0)) ELSE s1
        s3 == [s2 EXCEPT !.kmax = ZeroToNone(s2.kmax), !.kmin = ZeroToNone(s2.kmin)]
    IN  MultipoleStrengthData_update_arrays(s3, 2)

(* A list too short for index 1 makes the setter raise IndexError out of  *)
(* the constructor.                                                        *)
NewQuadrupoleData ==
    /\ obj = NoObj /\ call = NoCall
    /\ \E a \in StrengthArguments :
          IF 1 < len(a.kn) /\ 1 < len(a.ks)
          THEN /\ obj' = QuadrupoleData__post_init__(QuadrupoleData__init__(a))
               /\ call' = [op |-> "QuadrupoleData", args |-> a, raised |-> "none"]
          ELSE /\ obj' = NoObj
               /\ call' = [op |-> "QuadrupoleData", args |-> a, raised |-> "IndexError"]

Set_k1 ==
    /\ obj.cls = "QuadrupoleData"
    /\ \E value \in SetValues :
          IF 1 < len(obj.kn)
          THEN /\ obj' = k1_setter(obj, value)
               /\ call' = [op |-> "k1", value |-> value, raised |-> "none"]
          ELSE /\ obj' = obj
               /\ call' = [op |-> "k1", value |-> value, raised |-> "IndexError"]

Set_k1s ==
    /\ obj.cls = "QuadrupoleData"
    /\ \E value \in SetValues :
          IF 1 < len(obj.ks)
          THEN /\ obj' = k1s_setter(obj, value)
               /\ call' = [op |-> "k1s", value |-> value, raised |-> "none"]
          ELSE /\ obj' = obj
               /\ call' = [op |-> "k1s", value |-> value, raised |-> "IndexError"]

----------------------------------------------------------------------------
(* SextupoleData *)

k2(self) == getitem(self.kn, 2)

k2_setter(self, value) == [self EXCEPT !.kn = setitem(self.kn, 2, value)]

k2s(self) == getitem(self.ks, 2)

k2s_setter(self, value) == [self EXCEPT !.ks = setitem(self.ks, 2, value)]

(* The generated __init__ assigns the fields in order; k2 and k2s go      *)
(* through their setters into the lists just stored.                       *)
SextupoleData__init__(a) ==
    LET s0 == [cls |-> "SextupoleData", kn |-> a.kn, ks |-> a.ks,
               polarity |-> a.polarity, order |-> 0, kmax |-> None, kmin |-> None]
        s1 == k2_setter(s0, a.k)
        s2 == k2s_setter(s1, a.k_s)
    IN  [s2 EXCEPT !.kmax = a.kmax, !.kmin = a.kmin]

SextupoleData__post_init__(self) ==
    LET s1 == IF isinstance_property(k2(self)) THEN k2_setter(self, PyFloat(0)) ELSE self
        s2 == IF isinstance_property(k2s(s1)) THEN k2s_setter(s1, PyFloat(0)) ELSE s1
        s3 == [s2 EXCEPT !.kmax = ZeroToNone(s2.kmax), !.kmin = ZeroToNone(s2.kmin)]
    IN  MultipoleStrengthData_update_arrays(s3, 3)

(* A list too short for index 2 makes the setter raise IndexError out of  *)
(* the constructor.                                                        *)
NewSextupoleData ==
    /\ obj = NoObj /\ call = NoCall
    /\ \E a \in StrengthArguments :
          IF 2 < len(a.kn) /\ 2 < len(a.ks)
          THEN /\ obj' = SextupoleData__post_init__(SextupoleData__init__(a))
               /\ call' = [op |-> "SextupoleData", args |-> a, raised |-> "none"]
          ELSE /\ obj' = NoObj
               /\ call' = [op |-> "SextupoleData", args |-> a, raised |-> "IndexError"]

Set_k2 ==
    /\ obj.cls = "SextupoleData"
    /\ \E value \in SetValues :
          IF 2 < len(obj.kn)
          THEN /\ obj' = k2_setter(obj, value)
               /\ call' = [op |-> "k2", value |-> value, raised |-> "none"]
          ELSE /\ obj' = obj
               /\ call' = [op |-> "k2", value |-> value, raised |-> "IndexError"]

Set_k2s ==
    /\ obj.cls = "SextupoleData"
    /\ \E value \in SetValues :
          IF 2 < len(obj.ks)
          THEN /\ obj' = k2s_setter(obj, value)
               /\ call' = [op |-> "k2s", value |-> value, raised |-> "none"]
          ELSE /\ obj' = obj
               /\ call' = [op |-> "k2s", value |-> value, raised |-> "IndexError"]

----------------------------------------------------------------------------
(* OctupoleData *)

k3(self) == getitem(self.kn, 3)

k3_setter(self, value) == [self EXCEPT !.kn = setitem(self.kn, 3, value)]

k3s(self) == getitem(self.ks, 3)

k3s_setter(self, value) == [self EXCEPT !.ks = setitem(self.ks, 3, value)]

(* The generated __init__ assigns the fields in order; k3 and k3s go      *)
(* through their setters into the lists just stored.                       *)
OctupoleData__init__(a) ==
    LET s0 == [cls |-> "OctupoleData", kn |-> a.kn, ks |-> a.ks,
               polarity |-> a.polarity, order |-> 0, kmax |-> None, kmin |-> None]
        s1 == k3_setter(s0, a.k)
        s2 == k3s_setter(s1, a.k_s)
    IN  [s2 EXCEPT !.kmax = a.kmax, !.kmin = a.kmin]

OctupoleData__post_init__(self) ==
    LET s1 == IF isinstance_property(k3(self)) THEN k3_setter(self, PyFloat(0)) ELSE self
        s2 == IF isinstance_property(k3s(s1)) THEN k3s_setter(s1, PyFloat(0)) ELSE s1
        s3 == [s2 EXCEPT !.kmax = ZeroToNone(s2.kmax), !.kmin = ZeroToNone(s2.kmin)]
    IN  MultipoleStrengthData_update_arrays(s3, 4)

(* A list too short for index 3 makes the setter raise IndexError out of  *)
(* the constructor.                                                        *)
NewOctupoleData ==
    /\ obj = NoObj /\ call = NoCall
    /\ \E a \in StrengthArguments :
          IF 3 < len(a.kn) /\ 3 < len(a.ks)
          THEN /\ obj' = OctupoleData__post_init__(OctupoleData__init__(a))
               /\ call' = [op |-> "OctupoleData", args |-> a, raised |-> "none"]
          ELSE /\ obj' = NoObj
               /\ call' = [op |-> "OctupoleData", args |-> a, raised |-> "IndexError"]

Set_k3 ==
    /\ obj.cls = "OctupoleData"
    /\ \E value \in SetValues :
          IF 3 < len(obj.kn)
          THEN /\ obj' = k3_setter(obj, value)
               /\ call' = [op |-> "k3", value |-> value, raised |-> "none"]
          ELSE /\ obj' = obj
               /\ call' = [op |-> "k3", value |-> value, raised |-> "IndexError"]

Set_k3s ==
    /\ obj.cls = "OctupoleData"
    /\ \E value \in SetValues :
          IF 3 < len(obj.ks)
          THEN /\ obj' = k3s_setter(obj, value)
               /\ call' = [op |-> "k3s", value |-> value, raised |-> "none"]
          ELSE /\ obj' = obj
               /\ call' = [op |-> "k3s", value |-> value, raised |-> "IndexError"]

----------------------------------------------------------------------------
(* _update_arrays called on a record after its construction *)

IsStrength ==
    obj.cls \in {"MultipoleStrengthData", "QuadrupoleData", "SextupoleData", "OctupoleData"}

IsThin == obj.cls = "ThinMultipoleStrengthData"

UpdateArrays ==
    /\ IsStrength
    /\ \E min_order \in 1..MaxLen :
          /\ obj' = MultipoleStrengthData_update_arrays(obj, min_order)
          /\ call' = [op |-> "_update_arrays", min_order |-> min_order,
                      kn |-> obj.kn, ks |-> obj.ks]

ThinUpdateArrays ==
    /\ IsThin
    /\ \E min_order \in 1..MaxLen :
          /\ obj' = ThinMultipoleStrengthData_update_arrays(obj, min_order)
          /\ call' = [op |-> "_update_arrays", min_order |-> min_order,
                      kn |-> obj.knl, ks |-> obj.ksl]

----------------------------------------------------------------------------

Init == obj = NoObj /\ call = NoCall

Next ==
    \/ NewElementPosition
    \/ SetLength
    \/ SetLocation
    \/ SetReference
    \/ SetPosition
    \/ NewElementID
    \/ NewRectangularAperture
    \/ NewDipoleEdgeData
    \/ NewMultipoleStrengthData
    \/ NewThinMultipoleStrengthData
    \/ NewQuadrupoleData
    \/ Set_k1
    \/ Set_k1s
    \/ NewSextupoleData
    \/ Set_k2
    \/ Set_k2s
    \/ NewOctupoleData
    \/ Set_k3
    \/ Set_k3s
    \/ UpdateArrays
    \/ ThinUpdateArrays

Spec == Init /\ [][Next]_vars

----------------------------------------------------------------------------
(* ElementPosition: derived values *)

length(self) == self._length

location(self) == self._location

reference(self) == self._reference

IsPosition == obj.cls = "ElementPosition"

(* No rounding: the exact sum of two floats is itself a float. *)
ExactSum(x, y) == Round(x.v + y.v) = x.v + y.v

ExactDifference(x, y) == Round(x.v - y.v) = x.v - y.v

StartPlusLengthIsEnd(self) == NumEq(fadd(start(self), length(self)), end(self))

PositionIsMidpoint(self) == NumEq(position(self), fhalf(fadd(start(self), end(self))))

(* C1 as stated: for every ElementPosition record, after construction and  *)
(* after every assignment to length, location or reference,                *)
(* start + length == end and position == (start + end) / 2.                *)
C1_AsStated ==
    IsPosition => StartPlusLengthIsEnd(obj) /\ PositionIsMidpoint(obj)

(* C1 amended: start + length == end and position == (start + end) / 2     *)
(* hold for every ElementPosition record whose two offsets                 *)
(* position - length/2 and position + length/2 are computed without        *)
(* rounding.                                                               *)
C1_ExactOffsets ==
    (/\ IsPosition
     /\ ExactDifference(position(obj), fhalf(length(obj)))
     /\ ExactSum(position(obj), fhalf(length(obj))))
    => StartPlusLengthIsEnd(obj) /\ PositionIsMidpoint(obj)

(* A record that an assignment to length has left with start < end and     *)
(* with both offsets exact.                                                *)
C1_Witness ==
    /\ IsPosition
    /\ call.op = "length"
    /\ length(obj).v > 0
    /\ position(obj).v # 0
    /\ ExactDifference(position(obj), fhalf(length(obj)))
    /\ ExactSum(position(obj), fhalf(length(obj)))
    /\ start(obj).v < end(obj).v

(* An argument that set_position was called without is stored as 0.0. *)
Given(arg) == IF arg = PROPERTY THEN PyFloat(0) ELSE arg

NeverStale(self) ==
    LET pos == fadd(location(self), reference(self))
    IN  /\ position(self) = pos
        /\ start(self) = fsub(pos, fhalf(length(self)))
        /\ end(self) = fadd(pos, fhalf(length(self)))

SetPositionStores ==
    call.op = "set_position" =>
        /\ location(obj) = Given(call.location)
        /\ reference(obj) = Given(call.reference)

SetPositionKeepsLength ==
    (IsPosition /\ call'.op = "set_position") => length(obj') = length(obj)

(* C4: after construction and after any sequence of assignments to length, *)
(* location, reference and calls of set_position, position, start and end  *)
(* are the values computed from the length, location and reference now     *)
(* stored; set_position stores both its arguments, a missing one as 0.0,   *)
(* and leaves length unchanged.                                            *)
C4_NeverStale ==
    /\ [](IsPosition => NeverStale(obj) /\ SetPositionStores)
    /\ [][SetPositionKeepsLength]_vars

(* set_position(reference=r) on a record of non-zero length whose location *)
(* was not 0: the location is now 0.0 and the position is r.               *)
C4_Witness ==
    /\ IsPosition
    /\ call.op = "set_position"
    /\ call.location = PROPERTY
    /\ call.reference # PROPERTY
    /\ call.reference.v # 0
    /\ length(obj).v # 0
    /\ position(obj) = call.reference

----------------------------------------------------------------------------
(* Multipole strength records: order and coefficient arrays *)

IsMultipole == IsStrength \/ IsThin

Kn(self) == IF self.cls = "ThinMultipoleStrengthData" THEN self.knl ELSE self.kn

Ks(self) == IF self.cls = "ThinMultipoleStrengthData" THEN self.ksl ELSE self.ks

BaseClasses == {"MultipoleStrengthData", "ThinMultipoleStrengthData"}

DerivedClasses == {"QuadrupoleData", "SextupoleData", "OctupoleData"}

Constructed(classes) == call.op \in classes /\ call.raised = "none"

(* The indices i, as in c[i], at which c holds a non-zero coefficient. *)
NonZeroIndices(c) == {i \in 0..(len(c) - 1) : ~EqZero(getitem(c, i))}

Highest(S) == CHOOSE i \in S : \A j \in S : j <= i

(* C2 as stated: the order of a MultipoleStrengthData or                   *)
(* ThinMultipoleStrengthData record built from kn and ks is the highest    *)
(* index i of a non-zero coefficient kn[i] or ks[i].                       *)
C2_AsStated ==
    Constructed(BaseClasses) =>
        LET S == NonZeroIndices(call.kn) \cup NonZeroIndices(call.ks)
        IN  S # {} => obj.order = Highest(S)

(* C2 amended: the order of a MultipoleStrengthData or                     *)
(* ThinMultipoleStrengthData record built from kn and ks is one more than  *)
(* the highest index i of a non-zero coefficient kn[i] or ks[i], and 1     *)
(* when every coefficient is zero.                                         *)
C2_OrderIsHighestIndexPlusOne ==
    Constructed(BaseClasses) =>
        LET S == NonZeroIndices(call.kn) \cup NonZeroIndices(call.ks)
        IN  obj.order = IF S = {} THEN 1 ELSE Highest(S) + 1

(* A record built from lists of different lengths with trailing zeros and  *)
(* a zero before the highest non-zero coefficient.                         *)
C2_Witness ==
    /\ Constructed(BaseClasses)
    /\ len(call.kn) = 4
    /\ len(call.ks) = 2
    /\ NonZeroIndices(call.kn) = {2}
    /\ NonZeroIndices(call.ks) = {0}
    /\ obj.order = 3

(* C3: in every multipole strength record, after construction, after every *)
(* call of _update_arrays and after every assignment through k1/k1s,       *)
(* k2/k2s, k3/k3s, the normal and skew arrays have the same length, and    *)
(* that length is the order.                                               *)
C3_EqualOrderLength ==
    IsMultipole => len(Kn(obj)) = obj.order /\ len(Ks(obj)) = obj.order

(* _update_arrays has shortened a record whose skew array had a non-zero   *)
(* entry beyond the last non-zero normal one.                              *)
C3_Witness ==
    /\ IsMultipole
    /\ call.op = "_update_arrays"
    /\ len(call.kn) > obj.order
    /\ obj.order > 1
    /\ NonZeroIndices(Kn(obj)) = {0}
    /\ (obj.order - 1) \in NonZeroIndices(Ks(obj))

----------------------------------------------------------------------------
(* _update_arrays: its input and its result *)

KIndex(cls) ==
    CASE cls = "QuadrupoleData" -> 1
      [] cls = "SextupoleData" -> 2
      [] cls = "OctupoleData" -> 3

MinOrder(cls) ==
    CASE cls \in BaseClasses -> 1
      [] cls = "QuadrupoleData" -> 2
      [] cls = "SextupoleData" -> 3
      [] cls = "OctupoleData" -> 4

(* The strength argument as stored: 0.0 when it was omitted. *)
StrengthGiven(k) == IF k = PROPERTY THEN PyFloat(0) ELSE k

(* The coefficients a constructor hands to _update_arrays: the list given, *)
(* with the entry of the strength argument overwritten.                    *)
Overwritten(list, i, k) ==
    [j \in 0..(len(list) - 1) |-> IF j = i THEN StrengthGiven(k) ELSE getitem(list, j)]

ByConstructor == Constructed(BaseClasses \cup DerivedClasses)

ByCall == call.op = "_update_arrays"

InputKn ==
    IF ByCall \/ call.op \in BaseClasses
    THEN [j \in 0..(len(call.kn) - 1) |-> getitem(call.kn, j)]
    ELSE Overwritten(call.args.kn, KIndex(call.op), call.args.k)

InputKs ==
    IF ByCall \/ call.op \in BaseClasses
    THEN [j \in 0..(len(call.ks) - 1) |-> getitem(call.ks, j)]
    ELSE Overwritten(call.args.ks, KIndex(call.op), call.args.k_s)

InputMinOrder == IF ByCall THEN call.min_order ELSE MinOrder(call.op)

(* Entries left once the trailing zeros are removed; an all-zero or empty  *)
(* input counts as one entry.                                              *)
EntriesLeft(f) ==
    LET S == {j \in DOMAIN f : ~EqZero(f[j])}
    IN  IF S = {} THEN 1 ELSE Highest(S) + 1

(* The result keeps f's coefficients below order, is 0 where f had none,   *)
(* and what f held from order on was zero.                                 *)
Kept(f, c, order) ==
    /\ \A j \in 0..(order - 1) :
          IF j \in DOMAIN f
          THEN NumEq(getitem(c, j), f[j])
          ELSE EqZero(getitem(c, j))
    /\ \A j \in DOMAIN f : j >= order => EqZero(f[j])

(* C8: _update_arrays(min_order) sets order to the largest of the entries  *)
(* left of kn, the entries left of ks and min_order (1 for the base        *)
(* records, 2, 3, 4 for QuadrupoleData, SextupoleData, OctupoleData); the  *)
(* resulting arrays keep every input coefficient at its index below order, *)
(* hold 0 at the other indices below order, and drop only trailing zeros.  *)
C8_UpdateArrays ==
    (ByConstructor \/ ByCall) =>
        /\ obj.order = Max(Max(EntriesLeft(InputKn), EntriesLeft(InputKs)), InputMinOrder)
        /\ Kept(InputKn, Kn(obj), obj.order)
        /\ Kept(InputKs, Ks(obj), obj.order)

(* The default four-zero lists give a base record arrays of length 1. *)
C8_Witness ==
    /\ Constructed({"MultipoleStrengthData"})
    /\ call.kn = DefaultCoefficients
    /\ call.ks = DefaultCoefficients
    /\ obj.order = 1
    /\ len(obj.kn) = 1

(* C9: a QuadrupoleData built from lists of at least 2 entries has k1 at   *)
(* kn[1] when k1 is given and 0.0 when it is omitted, whatever kn[1] was   *)
(* given, and its order is computed after this overwrite; likewise k1s and *)
(* ks[1], SextupoleData at index 2 and OctupoleData at index 3.            *)
C9_StrengthArgumentDecides ==
    Constructed(DerivedClasses) =>
        /\ NumEq(getitem(obj.kn, KIndex(call.op)), StrengthGiven(call.args.k))
        /\ NumEq(getitem(obj.ks, KIndex(call.op)), StrengthGiven(call.args.k_s))
        /\ obj.order =
              Max(Max(EntriesLeft(Overwritten(call.args.kn, KIndex(call.op), call.args.k)),
                      EntriesLeft(Overwritten(call.args.ks, KIndex(call.op), call.args.k_s))),
                  MinOrder(call.op))

(* A QuadrupoleData built from kn == [1, 1] without k1: kn[1] is 0.0 and   *)
(* the order is 2, the minimum.                                            *)
C9_Witness ==
    /\ Constructed({"QuadrupoleData"})
    /\ call.args.kn = PyList(<<PyInt(1), PyInt(1)>>)
    /\ call.args.k = PROPERTY
    /\ call.args.k_s = PyInt(3)
    /\ EqZero(getitem(obj.kn, 1))
    /\ obj.order = 2

----------------------------------------------------------------------------
(* k1/k1s, k2/k2s, k3/k3s after construction *)

Assigned(name) == call.op = name /\ call.raised = "none"

(* C5 as stated: after k1 := v the next read of k1 returns v; likewise     *)
(* k1s, k2, k2s, k3 and k3s.                                               *)
C5_ReadsBackAssigned ==
    /\ Assigned("k1") => NumEq(k1(obj), call.value)
    /\ Assigned("k1s") => NumEq(k1s(obj), call.value)
    /\ Assigned("k2") => NumEq(k2(obj), call.value)
    /\ Assigned("k2s") => NumEq(k2s(obj), call.value)
    /\ Assigned("k3") => NumEq(k3(obj), call.value)
    /\ Assigned("k3s") => NumEq(k3s(obj), call.value)

(* The rest of C5, which holds: an assignment through k1, k2 or k3 changes  *)
(* entry 1, 2 or 3 of kn and nothing else of the record, one through k1s,  *)
(* k2s or k3s that entry of ks and nothing else; one that raises changes   *)
(* nothing.                                                                *)
OnlyAssignedEntryChanges ==
    /\ call'.op \in {"k1", "k2", "k3"} /\ call'.raised = "none" =>
          obj' = [obj EXCEPT !.kn.a[KIndex(obj.cls) + 1] = getitem(obj'.kn, KIndex(obj.cls))]
    /\ call'.op \in {"k1s", "k2s", "k3s"} /\ call'.raised = "none" =>
          obj' = [obj EXCEPT !.ks.a[KIndex(obj.cls) + 1] = getitem(obj'.ks, KIndex(obj.cls))]
    /\ call'.op \in {"k1", "k2", "k3", "k1s", "k2s", "k3s"} /\ call'.raised # "none" =>
          obj' = obj

AssignmentFrame == [][OnlyAssignedEntryChanges]_vars

----------------------------------------------------------------------------
(* Validation and defaults *)

(* C6: a DipoleEdgeData built with a side other than 'entrance' or 'exit'  *)
(* raises AssertionError and yields no record; every record built has side *)
(* 'entrance' or 'exit' and h and e1 as given.                             *)
C6_SideValidated ==
    /\ call.op = "DipoleEdgeData" /\ call.side \notin {"entrance", "exit"}
          => call.raised = "AssertionError" /\ obj = NoObj
    /\ obj.cls = "DipoleEdgeData"
          => /\ obj.side \in {"entrance", "exit"}
             /\ call.raised = "none"
             /\ obj.side = call.side /\ obj.h = call.h /\ obj.e1 = call.e1

C6_Witness ==
    /\ call.op = "DipoleEdgeData"
    /\ call.side = "Entrance"
    /\ call.raised = "AssertionError"
    /\ obj = NoObj

(* None for a zero, the value itself otherwise. *)
Stored(given, stored) == stored = IF EqZero(given) THEN None ELSE given

(* C7: an ElementID built with slot_id == 0 (assembly_id == 0) has slot_id *)
(* (assembly_id) None, and a QuadrupoleData, SextupoleData or OctupoleData *)
(* built with kmax == 0 (kmin == 0) has kmax (kmin) None; every non-zero   *)
(* value given is stored unchanged.                                        *)
C7_ZeroIsAbsent ==
    /\ call.op = "ElementID"
          => /\ Stored(call.slot_id, obj.slot_id)
             /\ Stored(call.assembly_id, obj.assembly_id)
    /\ Constructed(DerivedClasses)
          => /\ Stored(call.args.kmax, obj.kmax)
             /\ Stored(call.args.kmin, obj.kmin)

(* A SextupoleData built with kmax == 0.0 and kmin == -2. *)
C7_Witness ==
    /\ Constructed({"SextupoleData"})
    /\ call.args.kmax = PyFloat(0)
    /\ call.args.kmin = PyInt(-2)
    /\ obj.kmax = None
    /\ obj.kmin = PyInt(-2)

----------------------------------------------------------------------------
(* RectangularAperture *)

IsRectangle4 == call.op = "RectangularAperture" /\ Len(call.aperture_size) = 4

left == call.aperture_size[1]

right == call.aperture_size[2]

bottom == call.aperture_size[3]

up == call.aperture_size[4]

OffsetIsCentre ==
    /\ obj.aperture_offset = <<fhalf(fadd(left, right)), fhalf(fadd(bottom, up))>>
    /\ Len(obj.aperture_size) = 2

EdgesRecovered ==
    /\ NumEq(fsub(obj.aperture_offset[1], obj.aperture_size[1]), left)
    /\ NumEq(fadd(obj.aperture_offset[1], obj.aperture_size[1]), right)
    /\ NumEq(fsub(obj.aperture_offset[2], obj.aperture_size[2]), bottom)
    /\ NumEq(fadd(obj.aperture_offset[2], obj.aperture_size[2]), up)

LeftAsGiven ==
    (call.op = "RectangularAperture" /\ Len(call.aperture_size) # 4)
        => /\ obj.aperture_size = call.aperture_size
           /\ obj.aperture_offset = call.aperture_offset

(* C10 as stated: a RectangularAperture built from [left, right, bottom,   *)
(* up] has aperture_offset == [(left+right)/2, (bottom+up)/2] and two      *)
(* half-widths with offset[0] -/+ size[0] == left/right and                *)
(* offset[1] -/+ size[1] == bottom/up; any other aperture_size leaves      *)
(* aperture_size and aperture_offset as given.                             *)
C10_AsStated ==
    /\ IsRectangle4 => OffsetIsCentre /\ EdgesRecovered
    /\ LeftAsGiven

(* left + right, bottom + up and the two half-widths offset - left and     *)
(* offset - bottom are computed without rounding.                          *)
NoRounding ==
    /\ ExactSum(left, right)
    /\ ExactSum(bottom, up)
    /\ ExactDifference(fhalf(fadd(left, right)), left)
    /\ ExactDifference(fhalf(fadd(bottom, up)), bottom)

(* C10 amended: as stated, the four edges being recovered from offset and  *)
(* half-width when left + right, bottom + up, offset[0] - left and         *)
(* offset[1] - bottom are computed without rounding.                       *)
C10_EdgesWhenExact ==
    /\ IsRectangle4 => OffsetIsCentre /\ (NoRounding => EdgesRecovered)
    /\ LeftAsGiven

(* An off-centre rectangle, wider than high, computed without rounding. *)
C10_Witness ==
    /\ IsRectangle4
    /\ NoRounding
    /\ left.v < 0 /\ right.v > 4
    /\ bottom.v > 0 /\ up.v > bottom.v
    /\ obj.aperture_size[1].v > obj.aperture_size[2].v
    /\ obj.aperture_offset[1].v > 0

====
